---- MODULE Spec2Model ----
(***************************************************************************)
(* Lead management backend: the Lead document (models/Lead.js), its        *)
(* pre-save hook and updateStatus method, and the request handlers of      *)
(* controllers/leadController.js acting on the leads collection.           *)
(***************************************************************************)
EXTENDS Integers, Sequences, FiniteSets, TLC

VARIABLES
  leads,        \* the leads collection: _id -> stored document
  nextId,       \* the next ObjectId the driver hands out
  now,          \* the wall clock read by new Date()
  inflight,     \* updateLeadStatus requests between their findById and their save
  res,          \* the last response sent
  useLeads      \* the state of the useLeads hook of the page: its leads and pagination

vars == <<leads, nextId, now, inflight, res, useLeads>>

(* ------------------------------ bounds --------------------------------- *)
\* ids the driver can hand out, the last clock value of a run with one request at a time
\* and of a run with overlapping requests, and the requests that can overlap
MaxIds == 2
MaxTime == 5
MaxConcTime == 4
MaxRequests == 2
MaxBulkTime == 4
MaxApiTime == 5
MaxReadTime == 3
MaxRaceIds == 1
MaxRaceTime == 4
MaxHistory == 4
MaxStamp == 5
MaxNoteTime == 4
MaxUiTime == 3

(* ------------------------------ values --------------------------------- *)
validStatuses == {"new", "connected", "qualified", "converted"}

statusOrder == <<"new", "connected", "qualified", "converted">>

indexOf(s) == IF \E i \in 1..Len(statusOrder) : statusOrder[i] = s
              THEN CHOOSE i \in 1..Len(statusOrder) : statusOrder[i] = s
              ELSE 0

undefined == "undefined"

NoDate == 0

MalformedId == 0

isMongoId(id) == id >= 1

StatusInputs == validStatuses \cup {"contacted", undefined}

NotesInputs == {undefined, "", "called"}

IdInputs == 0..MaxIds

(* --------------------------- email strings ----------------------------- *)
\* strings are sequences of one-character strings so that case conversion is computed
upperOf == [c \in {"a", "b", "x", "i", "o"} |->
              CASE c = "a" -> "A" [] c = "b" -> "B" [] c = "x" -> "X"
                [] c = "i" -> "I" [] c = "o" -> "O"]

lowerChar(c) == IF \E l \in DOMAIN upperOf : upperOf[l] = c
                THEN CHOOSE l \in DOMAIN upperOf : upperOf[l] = c
                ELSE c

toLowerCase_identity(s) == s

toLowerCase(s) == [i \in DOMAIN s |-> lowerChar(s[i])]

letters == DOMAIN upperOf \cup {upperOf[l] : l \in DOMAIN upperOf}

localChars == letters \cup {".", "_", "%", "+", "-"}

domainChars == letters \cup {".", "-"}

\* /^[a-zA-Z0-9._%+-]+@[a-zA-Z0-9.-]+\.[a-zA-Z]{2,}$/
isValidEmail(v) ==
  \E at \in 1..Len(v) : \E dot \in 1..Len(v) :
     /\ v[at] = "@" /\ v[dot] = "."
     /\ at >= 2 /\ dot >= at + 2 /\ Len(v) >= dot + 2
     /\ \A i \in 1..(at - 1) : v[i] \in localChars
     /\ \A i \in (at + 1)..(dot - 1) : v[i] \in domainChars
     /\ \A i \in (dot + 1)..Len(v) : v[i] \in letters

sanitizeInput(input) == SelectSeq(input, LAMBDA c : c \notin {"<", ">"})

EmailInputs == { <<"a", "@", "x", ".", "i", "o">>,
                 <<"A", "@", "x", ".", "I", "O">>,
                 <<"b", "@", "x", ".", "i", "o">>,
                 <<"a", "x", ".", "i", "o">> }

(* --------------------------- Lead document ----------------------------- *)
noTimestamps == [connectedAt |-> NoDate, qualifiedAt |-> NoDate, convertedAt |-> NoDate]

setStageTimestamp_overwrite(ts, currentStatus, t) ==
  CASE currentStatus = "connected" -> [ts EXCEPT !.connectedAt = t]
    [] currentStatus = "qualified" -> [ts EXCEPT !.qualifiedAt = t]
    [] currentStatus = "converted" -> [ts EXCEPT !.convertedAt = t]
    [] OTHER -> ts

\* the switch of the pre-save hook: a stage timestamp is written only while unset
setStageTimestamp(ts, currentStatus, t) ==
  CASE currentStatus = "connected" /\ ts.connectedAt = NoDate -> [ts EXCEPT !.connectedAt = t]
    [] currentStatus = "qualified" /\ ts.qualifiedAt = NoDate -> [ts EXCEPT !.qualifiedAt = t]
    [] currentStatus = "converted" /\ ts.convertedAt = NoDate -> [ts EXCEPT !.convertedAt = t]
    [] OTHER -> ts

preSave_pushOnlyWithNotes(doc, isNew, statusModified, statusNotes, t) ==
  IF statusModified \/ isNew
  THEN LET currentStatus == doc.status
           historyEntry == [status |-> currentStatus, timestamp |-> t,
                            notes |-> IF isNew THEN undefined ELSE statusNotes]
       IN [doc EXCEPT
             !.statusHistory = IF isNew THEN <<historyEntry>>
                               ELSE IF statusNotes # undefined
                               THEN Append(doc.statusHistory, historyEntry)
                               ELSE doc.statusHistory,
             !.statusTimestamps = setStageTimestamp(doc.statusTimestamps, currentStatus, t)]
  ELSE doc

preSave_resetsHistory(doc, isNew, statusModified, statusNotes, t) ==
  IF statusModified \/ isNew
  THEN LET currentStatus == doc.status
           historyEntry == [status |-> currentStatus, timestamp |-> t,
                            notes |-> IF isNew THEN undefined ELSE statusNotes]
       IN [doc EXCEPT
             !.statusHistory = <<historyEntry>>,
             !.statusTimestamps = setStageTimestamp(doc.statusTimestamps, currentStatus, t)]
  ELSE doc

\* the status part of leadSchema.pre('save')
preSave(doc, isNew, statusModified, statusNotes, t) ==
  IF statusModified \/ isNew
  THEN LET currentStatus == doc.status
           historyEntry == [status |-> currentStatus, timestamp |-> t,
                            notes |-> IF isNew THEN undefined ELSE statusNotes]
       IN [doc EXCEPT
             !.statusHistory = IF isNew THEN <<historyEntry>>
                               ELSE Append(doc.statusHistory, historyEntry),
             !.statusTimestamps = setStageTimestamp(doc.statusTimestamps, currentStatus, t)]
  ELSE doc

\* new Lead(data): schema defaults and setters
newLead(data) ==
  [email |-> toLowerCase(data.email),
   status |-> IF data.status = undefined THEN "new" ELSE data.status,
   statusHistory |-> << >>,
   statusTimestamps |-> noTimestamps,
   createdAt |-> NoDate]

\* schema validation run by save(): the email pattern and the status enum
isValidDocument(doc) == isValidEmail(doc.email) /\ doc.status \in validStatuses

truthy(v) == v # undefined /\ v # ""

updateStatus_setsLeadNotes(doc, newStatus, notes, t) ==
  LET statusModified == newStatus # doc.status
      statusNotes == IF truthy(notes) /\ Len(doc.statusHistory) > 0 THEN notes ELSE undefined
      saved == preSave([doc EXCEPT !.status = newStatus], FALSE, statusModified, statusNotes, t)
  IN IF truthy(notes) /\ "notes" \in DOMAIN doc THEN [saved EXCEPT !.notes = notes] ELSE saved

updateStatus_alwaysModified(doc, newStatus, notes, t) ==
  LET statusNotes == IF truthy(notes) /\ Len(doc.statusHistory) > 0 THEN notes ELSE undefined
  IN preSave([doc EXCEPT !.status = newStatus], FALSE, TRUE, statusNotes, t)

updateStatus_dropsNotes(doc, newStatus, notes, t) ==
  LET statusModified == newStatus # doc.status
  IN preSave([doc EXCEPT !.status = newStatus], FALSE, statusModified, undefined, t)

\* the document after updateStatus(newStatus, notes) has run its pre-save hook, for a valid
\* status; assigning the value a path already holds does not mark the path modified
updateStatus(doc, newStatus, notes, t) ==
  LET statusModified == newStatus # doc.status
      statusNotes == IF truthy(notes) /\ Len(doc.statusHistory) > 0 THEN notes ELSE undefined
  IN preSave([doc EXCEPT !.status = newStatus], FALSE, statusModified, statusNotes, t)

isPrefix(h, g) == Len(h) <= Len(g) /\ SubSeq(g, 1, Len(h)) = h

savedDocument_setsHistory(stored, loaded, doc) ==
  [stored EXCEPT
     !.status = IF doc.status # loaded.status THEN doc.status ELSE @,
     !.statusHistory = doc.statusHistory,
     !.statusTimestamps =
        [f \in DOMAIN @ |-> IF doc.statusTimestamps[f] # loaded.statusTimestamps[f]
                            THEN doc.statusTimestamps[f] ELSE @[f]]]

savedDocument_withoutPush(stored, loaded, doc) ==
  [stored EXCEPT
     !.status = IF doc.status # loaded.status THEN doc.status ELSE @,
     !.statusTimestamps =
        [f \in DOMAIN @ |-> IF doc.statusTimestamps[f] # loaded.statusTimestamps[f]
                            THEN doc.statusTimestamps[f] ELSE @[f]]]

\* save() of a loaded document writes its modified paths to the stored document:
\* $set of status and of each written stage timestamp, $push of the entries pushed to the
\* history ($set of the history when it was assigned instead)
savedDocument(stored, loaded, doc) ==
  [stored EXCEPT
     !.status = IF doc.status # loaded.status THEN doc.status ELSE @,
     !.statusHistory = IF isPrefix(loaded.statusHistory, doc.statusHistory)
                       THEN @ \o SubSeq(doc.statusHistory, Len(loaded.statusHistory) + 1,
                                        Len(doc.statusHistory))
                       ELSE doc.statusHistory,
     !.statusTimestamps =
        [f \in DOMAIN @ |-> IF doc.statusTimestamps[f] # loaded.statusTimestamps[f]
                            THEN doc.statusTimestamps[f] ELSE @[f]]]

findByEmail(email) == {id \in DOMAIN leads : leads[id].email = toLowerCase(email)}

uniqueIndexViolated_noIndex(doc) == FALSE

\* the unique index on email refuses the insert of a document whose email is stored
uniqueIndexViolated(doc) == \E id \in DOMAIN leads : leads[id].email = doc.email

without(f, id) == [k \in DOMAIN f \ {id} |-> f[k]]

(* ------------------------------- Init ---------------------------------- *)
\* a response: the handler, the HTTP status code, the error message or field, the id an
\* updateLeadStatus or getLeadById request named and the status a createLead body carried
response(op, code, info, id, status) ==
  [op |-> op, code |-> code, info |-> info, id |-> id, status |-> status]

\* the useState defaults of the hook: no leads, a total count of 0
useState == [leads |-> << >>, pagination |-> [totalCount |-> 0]]

Init ==
  /\ leads = << >>
  /\ nextId = 1
  /\ now = 1
  /\ inflight = {}
  /\ res = response("none", 0, "", 0, undefined)
  /\ useLeads = useState

(* --------------------------- createLead -------------------------------- *)
\* what createLead passes to the model: status is not among the fields it copies
sanitizedData_withStatus(body) ==
  [email |-> sanitizeInput(body.email), status |-> body.status]

sanitizedData(body) ==
  [email |-> sanitizeInput(body.email), status |-> undefined]

createLead(body) ==
  LET normalized == [body EXCEPT !.email = toLowerCase(body.email)]
      data == sanitizedData(normalized)
      doc == newLead(data)
      savedLead == [preSave(doc, TRUE, FALSE, undefined, now) EXCEPT !.createdAt = now]
  IN IF ~isValidEmail(body.email)
     THEN /\ res' = response("createLead", 400, "Validation failed", 0, body.status)
          /\ UNCHANGED <<leads, nextId, now, inflight>>
     ELSE IF findByEmail(data.email) # {}
     THEN /\ res' = response("createLead", 409, "email", 0, body.status)
          /\ UNCHANGED <<leads, nextId, now, inflight>>
     ELSE IF ~isValidDocument(doc)
     THEN /\ res' = response("createLead", 400, "Validation failed", 0, body.status)
          /\ UNCHANGED <<leads, nextId, now, inflight>>
     ELSE IF uniqueIndexViolated(doc)
     THEN /\ res' = response("createLead", 409, "email", 0, body.status)
          /\ UNCHANGED <<leads, nextId, now, inflight>>
     ELSE /\ leads' = leads @@ (nextId :> savedLead)
          /\ nextId' = nextId + 1
          /\ now' = now + 1
          /\ res' = response("createLead", 201, "", 0, body.status)
          /\ UNCHANGED inflight

(* ------------------------- updateLeadStatus ---------------------------- *)
\* the backward move is logged, and the log is the only effect of the order check
updateLeadStatusCheck_rejectBackward(id, status) ==
  IF ~truthy(status) \/ status \notin validStatuses THEN "Invalid status"
  ELSE IF ~isMongoId(id) THEN "Invalid lead ID format"
  ELSE IF id \notin DOMAIN leads THEN "Lead not found"
  ELSE IF indexOf(status) < indexOf(leads[id].status) THEN "Invalid status"
  ELSE ""

updateLeadStatusCheck_lookupFirst(id, status) ==
  IF ~isMongoId(id) THEN "Invalid lead ID format"
  ELSE IF id \notin DOMAIN leads THEN "Lead not found"
  ELSE IF ~truthy(status) \/ status \notin validStatuses THEN "Invalid status"
  ELSE ""

\* the early returns of updateLeadStatus, in the order the handler makes them
updateLeadStatusCheck(id, status) ==
  IF ~truthy(status) \/ status \notin validStatuses THEN "Invalid status"
  ELSE IF ~isMongoId(id) THEN "Invalid lead ID format"
  ELSE IF id \notin DOMAIN leads THEN "Lead not found"
  ELSE ""

errorCode(info) == IF info = "Lead not found" THEN 404 ELSE 400

saveStatus_rereads(id, lead, status, notes) ==
  LET fresh == IF id \in DOMAIN leads THEN leads[id] ELSE lead
      doc == updateStatus(fresh, status, notes, now)
      dateRead == Len(doc.statusHistory) > Len(fresh.statusHistory)
  IN /\ now' = IF dateRead THEN now + 1 ELSE now
     /\ IF id \in DOMAIN leads
        THEN /\ leads' = [leads EXCEPT ![id] = savedDocument(@, fresh, doc)]
             /\ res' = response("updateLeadStatus", 200, "", id, undefined)
        ELSE /\ leads' = leads
             /\ res' = response("updateLeadStatus", 500, "Internal server error", id, undefined)

\* lead.updateStatus(status, notes) on the document loaded as lead, and its save()
saveStatus(id, lead, status, notes) ==
  LET doc == updateStatus(lead, status, notes, now)
      dateRead == Len(doc.statusHistory) > Len(lead.statusHistory)
  IN /\ now' = IF dateRead THEN now + 1 ELSE now
     /\ IF id \in DOMAIN leads
        THEN /\ leads' = [leads EXCEPT ![id] = savedDocument(@, lead, doc)]
             /\ res' = response("updateLeadStatus", 200, "", id, undefined)
        ELSE /\ leads' = leads
             /\ res' = response("updateLeadStatus", 500, "Internal server error", id, undefined)

updateLeadStatus(id, status, notes) ==
  LET failure == updateLeadStatusCheck(id, status)
  IN IF failure # ""
     THEN /\ res' = response("updateLeadStatus", errorCode(failure), failure, id, undefined)
          /\ UNCHANGED <<leads, nextId, now, inflight>>
     ELSE /\ saveStatus(id, leads[id], status, notes)
          /\ UNCHANGED <<nextId, inflight>>

(* ---------------------------- deleteLead ------------------------------- *)
deleteLead_findOnly(id) ==
  IF ~isMongoId(id)
  THEN /\ res' = response("deleteLead", 400, "Invalid lead ID format", 0, undefined)
       /\ UNCHANGED <<leads, nextId, now, inflight>>
  ELSE IF id \notin DOMAIN leads
  THEN /\ res' = response("deleteLead", 404, "Lead not found", 0, undefined)
       /\ UNCHANGED <<leads, nextId, now, inflight>>
  ELSE /\ res' = response("deleteLead", 200, "", 0, undefined)
       /\ UNCHANGED <<leads, nextId, now, inflight>>

deleteLead(id) ==
  IF ~isMongoId(id)
  THEN /\ res' = response("deleteLead", 400, "Invalid lead ID format", 0, undefined)
       /\ UNCHANGED <<leads, nextId, now, inflight>>
  ELSE IF id \notin DOMAIN leads
  THEN /\ res' = response("deleteLead", 404, "Lead not found", 0, undefined)
       /\ UNCHANGED <<leads, nextId, now, inflight>>
  ELSE /\ leads' = without(leads, id)
       /\ res' = response("deleteLead", 200, "", 0, undefined)
       /\ UNCHANGED <<nextId, now, inflight>>

(* ----------------------- one request at a time ------------------------- *)
\* the clock advances with every write; requests are explored while it is below the bound
Next ==
  \/ /\ now < MaxTime /\ nextId <= MaxIds
     /\ \E e \in EmailInputs, s \in StatusInputs : createLead([email |-> e, status |-> s])
     /\ UNCHANGED useLeads
  \/ /\ now < MaxTime
     /\ \E id \in IdInputs, s \in StatusInputs, n \in NotesInputs : updateLeadStatus(id, s, n)
     /\ UNCHANGED useLeads
  \/ /\ \E id \in IdInputs : deleteLead(id)
     /\ UNCHANGED useLeads

Spec == Init /\ [][Next]_vars

(* ------------------------ overlapping requests ------------------------- *)
\* updateLeadStatus up to its await of findById: the request now holds its loaded document
findLead(id, status, notes) ==
  LET failure == updateLeadStatusCheck(id, status)
  IN /\ IF failure # ""
        THEN /\ res' = response("updateLeadStatus", errorCode(failure), failure, id, undefined)
             /\ UNCHANGED inflight
        ELSE /\ inflight' = inflight \cup
                    {[id |-> id, status |-> status, notes |-> notes, lead |-> leads[id]]}
             /\ UNCHANGED res
     /\ UNCHANGED <<leads, nextId, now>>

\* the rest of updateLeadStatus: updateStatus on the loaded document and the response
saveLead(r) ==
  /\ r \in inflight
  /\ saveStatus(r.id, r.lead, r.status, r.notes)
  /\ inflight' = inflight \ {r}
  /\ UNCHANGED nextId

getLeadById(id) ==
  /\ res' = IF ~isMongoId(id)
            THEN response("getLeadById", 400, "Invalid lead ID format", id, undefined)
            ELSE IF id \notin DOMAIN leads
            THEN response("getLeadById", 404, "Lead not found", id, undefined)
            ELSE response("getLeadById", 200, "", id, undefined)
  /\ UNCHANGED <<leads, nextId, now, inflight>>

ConcNext ==
  \/ /\ now < MaxConcTime /\ nextId <= MaxIds
     /\ \E e \in EmailInputs : createLead([email |-> e, status |-> undefined])
     /\ UNCHANGED useLeads
  \/ /\ now < MaxConcTime /\ Cardinality(inflight) < MaxRequests
     /\ \E id \in IdInputs, s \in StatusInputs : findLead(id, s, undefined)
     /\ UNCHANGED useLeads
  \/ /\ now < MaxConcTime
     /\ \E r \in inflight : saveLead(r)
     /\ UNCHANGED useLeads
  \/ /\ \E id \in IdInputs : deleteLead(id)
     /\ UNCHANGED useLeads
  \/ /\ \E id \in IdInputs : getLeadById(id)
     /\ UNCHANGED useLeads

ConcSpec == Init /\ [][ConcNext]_vars

(* ----------------------- bulkUpdateLeadStatus -------------------------- *)
\* the arrays a request body carries as leadIds
LeadIdsInputs == {<< >>} \cup {<<a>> : a \in IdInputs} \cup {<<a, b>> : a, b \in IdInputs}

BulkNotesInputs == {undefined, "called"}

elements(seq) == {seq[i] : i \in DOMAIN seq}

RECURSIVE ascending(_)
\* the ids of a set in the order a scan of the collection meets them
ascending(S) ==
  IF S = {} THEN << >>
  ELSE LET least == CHOOSE a \in S : \A b \in S : a <= b
       IN <<least>> \o ascending(S \ {least})

\* Lead.find({ _id: { $in: leadIds } }): the stored documents whose id the array names
findIn(leadIds) ==
  LET found == ascending(elements(leadIds) \cap DOMAIN leads)
  IN [i \in DOMAIN found |-> [id |-> found[i], lead |-> leads[found[i]]]]

bulkUpdateLeadStatusCheck_noNotFound(leadIds, status) ==
  IF Len(leadIds) = 0 THEN "leadIds array is required and must not be empty"
  ELSE IF ~truthy(status) \/ status \notin validStatuses THEN "Invalid status"
  ELSE IF Len(leadIds) > 100 THEN "Cannot update more than 100 leads at once"
  ELSE IF \E i \in DOMAIN leadIds : ~isMongoId(leadIds[i])
  THEN "Internal server error while updating lead statuses"
  ELSE ""

bulkUpdateLeadStatusCheck_noLimit(leadIds, status) ==
  IF Len(leadIds) = 0 THEN "leadIds array is required and must not be empty"
  ELSE IF ~truthy(status) \/ status \notin validStatuses THEN "Invalid status"
  ELSE IF \E i \in DOMAIN leadIds : ~isMongoId(leadIds[i])
  THEN "Internal server error while updating lead statuses"
  ELSE IF Len(findIn(leadIds)) = 0 THEN "No leads found with the provided IDs"
  ELSE ""

\* the early returns of bulkUpdateLeadStatus, in the order the handler makes them
bulkUpdateLeadStatusCheck(leadIds, status) ==
  IF Len(leadIds) = 0 THEN "leadIds array is required and must not be empty"
  ELSE IF ~truthy(status) \/ status \notin validStatuses THEN "Invalid status"
  ELSE IF Len(leadIds) > 100 THEN "Cannot update more than 100 leads at once"
  ELSE IF \E i \in DOMAIN leadIds : ~isMongoId(leadIds[i])
  THEN "Internal server error while updating lead statuses"
  ELSE IF Len(findIn(leadIds)) = 0 THEN "No leads found with the provided IDs"
  ELSE ""

bulkErrorCode(info) ==
  CASE info = "No leads found with the provided IDs" -> 404
    [] info = "Internal server error while updating lead statuses" -> 500
    [] OTHER -> 400

bulkResponse_requestedIsFound(r, successful, failed) ==
  [op |-> "bulkUpdateLeadStatus", code |-> 200, info |-> "", id |-> 0, status |-> undefined,
   leadIds |-> r.leadIds,
   successful |-> successful,
   failed |-> failed,
   summary |-> [requested |-> Len(r.leads), found |-> Len(r.leads),
                successful |-> Len(successful), failed |-> Len(failed)]]

\* the response of a completed batch: the two outcome lists and the summary
bulkResponse(r, successful, failed) ==
  [op |-> "bulkUpdateLeadStatus", code |-> 200, info |-> "", id |-> 0, status |-> undefined,
   leadIds |-> r.leadIds,
   successful |-> successful,
   failed |-> failed,
   summary |-> [requested |-> Len(r.leadIds), found |-> Len(r.leads),
                successful |-> Len(successful), failed |-> Len(failed)]]

\* bulkUpdateLeadStatus up to its await of Lead.find: the request holds the documents found
bulkFind(leadIds, status, notes) ==
  LET failure == bulkUpdateLeadStatusCheck(leadIds, status)
  IN /\ IF failure # ""
        THEN /\ res' = response("bulkUpdateLeadStatus", bulkErrorCode(failure), failure, 0,
                                undefined)
             /\ UNCHANGED inflight
        ELSE /\ inflight' = inflight \cup
                    {[leadIds |-> leadIds, status |-> status, notes |-> notes,
                      leads |-> findIn(leadIds), successful |-> << >>, failed |-> << >>]}
             /\ UNCHANGED res
     /\ UNCHANGED <<leads, nextId, now>>

bulkSaveItem_rollback(r) ==
  LET i == Len(r.successful) + Len(r.failed) + 1
      id == r.leads[i].id
      lead == r.leads[i].lead
      doc == updateStatus(lead, r.status, r.notes, now)
      dateRead == Len(doc.statusHistory) > Len(lead.statusHistory)
      saved == id \in DOMAIN leads
      item == [id |-> id, oldStatus |-> doc.status, newStatus |-> r.status]
      successful == IF saved THEN Append(r.successful, item) ELSE r.successful
      failed == IF saved THEN r.failed ELSE Append(r.failed, [id |-> id])
      next == [r EXCEPT !.successful = successful, !.failed = failed]
  IN /\ r \in inflight
     /\ i <= Len(r.leads)
     /\ now' = IF dateRead THEN now + 1 ELSE now
     /\ leads' = IF saved THEN [leads EXCEPT ![id] = savedDocument(@, lead, doc)]
                 ELSE [k \in DOMAIN leads |->
                         IF \E j \in 1..(i - 1) : r.leads[j].id = k
                         THEN r.leads[CHOOSE j \in 1..(i - 1) : r.leads[j].id = k].lead
                         ELSE leads[k]]
     /\ IF i = Len(r.leads)
        THEN /\ res' = bulkResponse(r, successful, failed)
             /\ inflight' = inflight \ {r}
        ELSE /\ inflight' = (inflight \ {r}) \cup {next}
             /\ UNCHANGED res
     /\ UNCHANGED nextId

\* one turn of the loop over the documents found: updateStatus on the next document and its
\* save(), a failed save being caught and listed; the response follows the last turn
bulkSaveItem(r) ==
  LET i == Len(r.successful) + Len(r.failed) + 1
      id == r.leads[i].id
      lead == r.leads[i].lead
      doc == updateStatus(lead, r.status, r.notes, now)
      dateRead == Len(doc.statusHistory) > Len(lead.statusHistory)
      saved == id \in DOMAIN leads
      item == [id |-> id, oldStatus |-> doc.status, newStatus |-> r.status]
      successful == IF saved THEN Append(r.successful, item) ELSE r.successful
      failed == IF saved THEN r.failed ELSE Append(r.failed, [id |-> id])
      next == [r EXCEPT !.successful = successful, !.failed = failed]
  IN /\ r \in inflight
     /\ i <= Len(r.leads)
     /\ now' = IF dateRead THEN now + 1 ELSE now
     /\ leads' = IF saved THEN [leads EXCEPT ![id] = savedDocument(@, lead, doc)] ELSE leads
     /\ IF i = Len(r.leads)
        THEN /\ res' = bulkResponse(r, successful, failed)
             /\ inflight' = inflight \ {r}
        ELSE /\ inflight' = (inflight \ {r}) \cup {next}
             /\ UNCHANGED res
     /\ UNCHANGED nextId

\* requests overlap a batch: one batch at a time, among creations, single updates and
\* deletions answered between its turns
BulkNext ==
  \/ /\ now < MaxBulkTime /\ nextId <= MaxIds
     /\ \E e \in EmailInputs : createLead([email |-> e, status |-> undefined])
     /\ UNCHANGED useLeads
  \/ /\ now < MaxBulkTime /\ inflight = {}
     /\ \E ids \in LeadIdsInputs, s \in validStatuses \cup {"contacted"}, n \in BulkNotesInputs :
          bulkFind(ids, s, n)
     /\ UNCHANGED useLeads
  \/ /\ \E r \in inflight : bulkSaveItem(r)
     /\ UNCHANGED useLeads
  \/ /\ \E id \in IdInputs : deleteLead(id)
     /\ UNCHANGED useLeads

BulkSpec == Init /\ [][BulkNext]_vars


\* the largest leadIds array a batch may carry
bulkLimit == 100

\* arrays at the limits of the size check: none, one, bulkLimit and bulkLimit + 1 ids
LimitLeadIdsInputs ==
  {<< >>} \cup {[i \in 1..n |-> a] : n \in {1, bulkLimit, bulkLimit + 1}, a \in IdInputs}

\* batches of all sizes among creations and deletions
LimitNext ==
  \/ /\ now < MaxBulkTime /\ nextId <= MaxIds
     /\ \E e \in EmailInputs : createLead([email |-> e, status |-> undefined])
     /\ UNCHANGED useLeads
  \/ /\ now < MaxBulkTime /\ inflight = {}
     /\ \E ids \in LimitLeadIdsInputs, s \in {"connected", "contacted", undefined} :
          bulkFind(ids, s, undefined)
     /\ UNCHANGED useLeads
  \/ /\ \E r \in inflight : bulkSaveItem(r)
     /\ UNCHANGED useLeads
  \/ /\ \E id \in IdInputs : deleteLead(id)
     /\ UNCHANGED useLeads

LimitSpec == Init /\ [][LimitNext]_vars

(* ---------------------------- aggregations ----------------------------- *)
\* the clock counts hours; a difference of two dates is a number of milliseconds
msPerHour == 3600000

null == -1

RECURSIVE sum(_, _)
\* $sum over the documents S of the values f gives them
sum(f, S) ==
  IF S = {} THEN 0
  ELSE LET id == CHOOSE id \in S : TRUE
       IN f[id] + sum(f, S \ {id})

Lead_getLeadStats_initialStatus ==
  [s \in {leads[id].statusHistory[1].status : id \in DOMAIN leads} |->
     sum([id \in DOMAIN leads |-> IF leads[id].statusHistory[1].status = s THEN 1 ELSE 0],
         DOMAIN leads)]

\* $group by '$status' with count: { $sum: 1 }: one result per status some lead holds
Lead_getLeadStats ==
  [s \in {leads[id].status : id \in DOMAIN leads} |->
     sum([id \in DOMAIN leads |-> IF leads[id].status = s THEN 1 ELSE 0], DOMAIN leads)]

conversionFunnel_connectedEverReached ==
  IF DOMAIN leads = {} THEN << >>
  ELSE <<[total |-> sum([id \in DOMAIN leads |-> 1], DOMAIN leads),
          connected |-> sum([id \in DOMAIN leads |->
                               IF leads[id].statusTimestamps.connectedAt # NoDate
                               THEN 1 ELSE 0], DOMAIN leads),
          qualified |-> sum([id \in DOMAIN leads |->
                               IF leads[id].status \in {"qualified", "converted"}
                               THEN 1 ELSE 0], DOMAIN leads),
          converted |-> sum([id \in DOMAIN leads |->
                               IF leads[id].status = "converted" THEN 1 ELSE 0],
                            DOMAIN leads)]>>

conversionFunnel_connectedOnly ==
  IF DOMAIN leads = {} THEN << >>
  ELSE <<[total |-> sum([id \in DOMAIN leads |-> 1], DOMAIN leads),
          connected |-> sum([id \in DOMAIN leads |->
                               IF leads[id].status = "connected" THEN 1 ELSE 0],
                            DOMAIN leads),
          qualified |-> sum([id \in DOMAIN leads |->
                               IF leads[id].status \in {"qualified", "converted"}
                               THEN 1 ELSE 0], DOMAIN leads),
          converted |-> sum([id \in DOMAIN leads |->
                               IF leads[id].status = "converted" THEN 1 ELSE 0],
                            DOMAIN leads)]>>

conversionFunnel_qualifiedEverReached ==
  IF DOMAIN leads = {} THEN << >>
  ELSE <<[total |-> sum([id \in DOMAIN leads |-> 1], DOMAIN leads),
          connected |-> sum([id \in DOMAIN leads |->
                               IF leads[id].status \in {"connected", "qualified", "converted"}
                               THEN 1 ELSE 0], DOMAIN leads),
          qualified |-> sum([id \in DOMAIN leads |->
                               IF leads[id].statusTimestamps.qualifiedAt # NoDate
                               THEN 1 ELSE 0], DOMAIN leads),
          converted |-> sum([id \in DOMAIN leads |->
                               IF leads[id].status = "converted" THEN 1 ELSE 0],
                            DOMAIN leads)]>>

\* the conversionFunnel facet: one $group over all documents, none when there is no document
conversionFunnel ==
  IF DOMAIN leads = {} THEN << >>
  ELSE <<[total |-> sum([id \in DOMAIN leads |-> 1], DOMAIN leads),
          connected |-> sum([id \in DOMAIN leads |->
                               IF leads[id].status \in {"connected", "qualified", "converted"}
                               THEN 1 ELSE 0], DOMAIN leads),
          qualified |-> sum([id \in DOMAIN leads |->
                               IF leads[id].status \in {"qualified", "converted"}
                               THEN 1 ELSE 0], DOMAIN leads),
          converted |-> sum([id \in DOMAIN leads |->
                               IF leads[id].status = "converted" THEN 1 ELSE 0],
                            DOMAIN leads)]>>

\* $subtract of two dates; null when an operand is missing
subtract(a, b) == IF a = NoDate \/ b = NoDate THEN null ELSE (a - b) * msPerHour

\* the null an average of no number is, written as a fraction like the other averages
nullAverage == [sum |-> 0, count |-> 0]

avg_nullAsZero(values, S) ==
  IF S = {} THEN nullAverage
  ELSE [sum |-> sum([id \in S |-> IF values[id] = null THEN 0 ELSE values[id]], S),
        count |-> Cardinality(S)]

\* $avg over the documents S: the mean of the numeric values, as the fraction sum/count;
\* values that are not numbers are ignored and the mean of none is null
avg(values, S) ==
  LET numeric == {id \in S : values[id] # null}
  IN IF numeric = {} THEN nullAverage
     ELSE [sum |-> sum(values, numeric), count |-> Cardinality(numeric)]

\* the $cond of an average: a missing field is not equal to null, and the subtraction
\* from a missing field is what yields null
timeTo(field, id) ==
  IF leads[id].statusTimestamps[field] # null
  THEN subtract(leads[id].statusTimestamps[field], leads[id].createdAt)
  ELSE null

\* the averageProgressionTimes facet: $match on any stage timestamp, then one $group
averageProgressionTimes ==
  LET matched == {id \in DOMAIN leads :
                    \E f \in DOMAIN noTimestamps : leads[id].statusTimestamps[f] # NoDate}
  IN IF matched = {} THEN << >>
     ELSE <<[avgTimeToConnect |-> avg([id \in matched |-> timeTo("connectedAt", id)], matched),
             avgTimeToQualify |-> avg([id \in matched |-> timeTo("qualifiedAt", id)], matched),
             avgTimeToConvert |-> avg([id \in matched |-> timeTo("convertedAt", id)], matched)]>>

\* Lead.getLeadProgressionStats(): the one document of the $facet stage
getLeadProgressionStats ==
  <<[statusCounts |-> Lead_getLeadStats,
     conversionFunnel |-> conversionFunnel,
     averageProgressionTimes |-> averageProgressionTimes]>>

(* ----------------------------- read handlers --------------------------- *)
\* a response that carries data
dataResponse(op, id, data) ==
  [op |-> op, code |-> 200, info |-> "", id |-> id, status |-> undefined, data |-> data]

\* the controller's getLeadStats: the total and the count of each status of the result
getLeadStats ==
  LET stats == Lead_getLeadStats
      formattedStats == [total |-> sum(stats, DOMAIN stats), byStatus |-> stats]
  IN /\ res' = dataResponse("getLeadStats", 0, formattedStats)
     /\ UNCHANGED <<leads, nextId, now, inflight>>

\* (x * 100).toFixed(2) of the quotient x = num / den, in hundredths of a percent
toFixed2(num, den) == [hundredths |-> (2 * num * 10000 + den) \div (2 * den)]

\* formatTime of the controller: whole hours below a day, whole days from a day on
formatTime(ms) ==
  IF ms = nullAverage \/ ms.sum = 0 THEN null
  ELSE LET perHour == ms.count * msPerHour
           hours == (2 * ms.sum + perHour) \div (2 * perHour)
           days == (2 * hours + 24) \div 48
       IN IF hours < 24 THEN [n |-> hours, unit |-> "hours"] ELSE [n |-> days, unit |-> "days"]

getLeadProgressionAnalytics ==
  LET analytics == getLeadProgressionStats
      result == analytics[1]
      funnel == IF Len(result.conversionFunnel) > 0 THEN result.conversionFunnel[1]
                ELSE [total |-> 0, connected |-> 0, qualified |-> 0, converted |-> 0]
      times == IF Len(result.averageProgressionTimes) > 0
               THEN result.averageProgressionTimes[1] ELSE << >>
      time(f) == IF f \in DOMAIN times THEN times[f] ELSE nullAverage
      conversionRates ==
        [newToConnected |-> IF funnel.total > 0
                            THEN toFixed2(funnel.connected, funnel.total) ELSE 0,
         connectedToQualified |-> IF funnel.connected > 0
                                  THEN toFixed2(funnel.qualified, funnel.connected) ELSE 0,
         qualifiedToConverted |-> IF funnel.qualified > 0
                                  THEN toFixed2(funnel.converted, funnel.qualified) ELSE 0,
         overallConversion |-> IF funnel.total > 0
                               THEN toFixed2(funnel.converted, funnel.total) ELSE 0]
      data == [statusCounts |-> result.statusCounts,
               conversionFunnel |-> [total |-> funnel.total, connected |-> funnel.connected,
                                     qualified |-> funnel.qualified,
                                     converted |-> funnel.converted,
                                     conversionRates |-> conversionRates],
               averageProgressionTimes |->
                 [avgTimeToConnect |-> formatTime(time("avgTimeToConnect")),
                  avgTimeToQualify |-> formatTime(time("avgTimeToQualify")),
                  avgTimeToConvert |-> formatTime(time("avgTimeToConvert")),
                  raw |-> times]]
  IN /\ res' = dataResponse("getLeadProgressionAnalytics", 0, data)
     /\ UNCHANGED <<leads, nextId, now, inflight>>

RECURSIVE timeInEachStatus_sum(_, _, _)
timeInEachStatus_sum(h, i, acc) ==
  IF i >= Len(h) THEN acc
  ELSE timeInEachStatus_sum(h, i + 1,
         [s \in DOMAIN acc \cup {h[i].status} |->
            IF s = h[i].status
            THEN (IF s \in DOMAIN acc THEN acc[s] ELSE 0)
                 + (h[i + 1].timestamp - h[i].timestamp) * msPerHour
            ELSE acc[s]])

RECURSIVE timeInEachStatus(_, _, _)
\* the loop of getProgressionMetrics from entry i on: a later stay in a status overwrites
\* the time recorded for an earlier one
timeInEachStatus(h, i, acc) ==
  IF i >= Len(h) THEN acc
  ELSE timeInEachStatus(h, i + 1,
         [s \in DOMAIN acc \cup {h[i].status} |->
            IF s = h[i].status THEN (h[i + 1].timestamp - h[i].timestamp) * msPerHour
            ELSE acc[s]])

\* lead.getProgressionMetrics() called at time t
getProgressionMetrics(doc, t) ==
  IF Len(doc.statusHistory) = 0 THEN null
  ELSE [totalProgressions |-> Len(doc.statusHistory) - 1,
        timeInEachStatus |-> timeInEachStatus(doc.statusHistory, 1, [s \in {} |-> 0]),
        currentStatusDuration |->
          (t - doc.statusHistory[Len(doc.statusHistory)].timestamp) * msPerHour]

getLeadStatusHistory_savesLead(id) ==
  /\ res' = IF ~isMongoId(id)
            THEN response("getLeadStatusHistory", 400, "Invalid lead ID format", id, undefined)
            ELSE IF id \notin DOMAIN leads
            THEN response("getLeadStatusHistory", 404, "Lead not found", id, undefined)
            ELSE dataResponse("getLeadStatusHistory", id,
                   [leadInfo |-> [id |-> id, email |-> leads[id].email,
                                  currentStatus |-> leads[id].status],
                    statusHistory |-> leads[id].statusHistory,
                    statusTimestamps |-> leads[id].statusTimestamps,
                    progressionMetrics |-> getProgressionMetrics(leads[id], now)])
  /\ leads' = IF id \in DOMAIN leads
              THEN [leads EXCEPT ![id] = updateStatus_alwaysModified(@, @.status, undefined, now)]
              ELSE leads
  /\ UNCHANGED <<nextId, now, inflight>>

getLeadStatusHistory(id) ==
  /\ res' = IF ~isMongoId(id)
            THEN response("getLeadStatusHistory", 400, "Invalid lead ID format", id, undefined)
            ELSE IF id \notin DOMAIN leads
            THEN response("getLeadStatusHistory", 404, "Lead not found", id, undefined)
            ELSE dataResponse("getLeadStatusHistory", id,
                   [leadInfo |-> [id |-> id, email |-> leads[id].email,
                                  currentStatus |-> leads[id].status],
                    statusHistory |-> leads[id].statusHistory,
                    statusTimestamps |-> leads[id].statusTimestamps,
                    progressionMetrics |-> getProgressionMetrics(leads[id], now)])
  /\ UNCHANGED <<leads, nextId, now, inflight>>

RECURSIVE mostRecentFirst(_)
\* sort({ createdAt: -1 }) of the documents with the ids S
mostRecentFirst(S) ==
  IF S = {} THEN << >>
  ELSE LET latest == CHOOSE a \in S : \A b \in S : leads[a].createdAt >= leads[b].createdAt
       IN <<latest>> \o mostRecentFirst(S \ {latest})

\* getAllLeads with the default page 1 and limit 10 and no search text
getAllLeads(status) ==
  LET page == 1
      limit == 10
      matching == IF truthy(status) /\ status \in validStatuses
                  THEN {id \in DOMAIN leads : leads[id].status = status}
                  ELSE DOMAIN leads
      skip == (page - 1) * limit
      sorted == mostRecentFirst(matching)
      first == skip + 1
      lastOfPage == IF Len(sorted) < skip + limit THEN Len(sorted) ELSE skip + limit
      totalCount == Cardinality(matching)
  IN /\ res' = dataResponse("getAllLeads", 0,
                  [leads |-> [i \in 1..(lastOfPage - first + 1) |->
                                [id |-> sorted[first + i - 1],
                                 lead |-> leads[sorted[first + i - 1]]]],
                   totalCount |-> totalCount])
     /\ UNCHANGED <<leads, nextId, now, inflight>>

\* one request at a time, reads among the writes
ApiNext ==
  \/ /\ now < MaxApiTime /\ nextId <= MaxIds
     /\ \E e \in EmailInputs : createLead([email |-> e, status |-> undefined])
     /\ UNCHANGED useLeads
  \/ /\ now < MaxApiTime
     /\ \E id \in IdInputs, s \in validStatuses : updateLeadStatus(id, s, undefined)
     /\ UNCHANGED useLeads
  \/ /\ \E id \in IdInputs : deleteLead(id)
     /\ UNCHANGED useLeads
  \/ /\ \E id \in IdInputs : getLeadById(id)
     /\ UNCHANGED useLeads
  \/ /\ \E id \in IdInputs : getLeadStatusHistory(id)
     /\ UNCHANGED useLeads
  \/ /\ \E status \in {undefined, "new"} : getAllLeads(status)
     /\ UNCHANGED useLeads
  \/ /\ getLeadStats
     /\ UNCHANGED useLeads
  \/ /\ getLeadProgressionAnalytics
     /\ UNCHANGED useLeads

ApiSpec == Init /\ [][ApiNext]_vars

\* the server answers the requests it is sent
FairApiSpec == ApiSpec /\ WF_vars(ApiNext)

\* reads answered among overlapping updates, creations and deletions
ReadNext ==
  \/ /\ now < MaxReadTime /\ nextId <= MaxIds
     /\ \E e \in EmailInputs : createLead([email |-> e, status |-> undefined])
     /\ UNCHANGED useLeads
  \/ /\ now < MaxReadTime /\ Cardinality(inflight) < MaxRequests
     /\ \E id \in IdInputs, s \in validStatuses : findLead(id, s, undefined)
     /\ UNCHANGED useLeads
  \/ /\ now < MaxReadTime
     /\ \E r \in inflight : saveLead(r)
     /\ UNCHANGED useLeads
  \/ /\ \E id \in IdInputs : deleteLead(id)
     /\ UNCHANGED useLeads
  \/ /\ \E id \in IdInputs : getLeadById(id)
     /\ UNCHANGED useLeads
  \/ /\ \E id \in IdInputs : getLeadStatusHistory(id)
     /\ UNCHANGED useLeads
  \/ /\ \E status \in {undefined, "new"} : getAllLeads(status)
     /\ UNCHANGED useLeads
  \/ /\ getLeadStats
     /\ UNCHANGED useLeads
  \/ /\ getLeadProgressionAnalytics
     /\ UNCHANGED useLeads

ReadSpec == Init /\ [][ReadNext]_vars

(* --------------------------- the useLeads hook -------------------------- *)
\* a document as find().lean() returns it: a plain object under _id
lean(id, doc) == [_id |-> id, status |-> doc.status]

\* a document as toJSON transforms it: ret.id = ret._id; delete ret._id
toJSON(id, doc) == [id |-> id, status |-> doc.status]

\* { ...lead, ...data }
spread(lead, data) ==
  [f \in DOMAIN lead \cup DOMAIN data |-> IF f \in DOMAIN data THEN data[f] ELSE lead[f]]

\* fetchLeads: the list and the pagination of the response replace those of the hook
fetchLeads(status) ==
  /\ getAllLeads(status)
  /\ useLeads' = [leads |-> [i \in DOMAIN res'.data.leads |->
                               lean(res'.data.leads[i].id, res'.data.leads[i].lead)],
                  pagination |-> [totalCount |-> res'.data.totalCount]]

\* createLead of the hook: the created lead is put at the beginning of the list
useLeads_createLead(leadData) ==
  /\ createLead(leadData)
  /\ useLeads' = IF res'.code = 201
                 THEN [leads |-> <<toJSON(nextId, leads'[nextId])>> \o useLeads.leads,
                       pagination |-> [totalCount |-> useLeads.pagination.totalCount + 1]]
                 ELSE useLeads

\* lead._id || lead.id === leadId
matchesUpdate(lead, leadId) ==
  IF "_id" \in DOMAIN lead THEN lead._id = leadId
  ELSE "id" \in DOMAIN lead /\ lead.id = leadId

\* updateLeadStatus of the hook: the data of the response are merged into the list element
useLeads_updateLeadStatus(leadId, newStatus, notes) ==
  /\ updateLeadStatus(leadId, newStatus, notes)
  /\ useLeads' =
       IF res'.code = 200
       THEN [useLeads EXCEPT !.leads =
               [i \in DOMAIN @ |->
                  IF matchesUpdate(@[i], leadId)
                  THEN spread(spread(@[i], toJSON(leadId, leads'[leadId])),
                              [updatedAt |-> now'])
                  ELSE @[i]]]
       ELSE useLeads

\* lead.id !== leadId
keptByDelete(lead, leadId) == ~("id" \in DOMAIN lead /\ lead.id = leadId)

\* deleteLead of the hook: the list is filtered and the total count decremented
useLeads_deleteLead(leadId) ==
  /\ deleteLead(leadId)
  /\ useLeads' =
       IF res'.code = 200
       THEN [leads |-> SelectSeq(useLeads.leads, LAMBDA lead : keptByDelete(lead, leadId)),
             pagination |-> [totalCount |-> useLeads.pagination.totalCount - 1]]
       ELSE useLeads

\* the page: one operation of the hook at a time
UiNext ==
  \/ \E status \in {undefined, "new"} : fetchLeads(status)
  \/ /\ now < MaxUiTime /\ nextId <= MaxIds
     /\ \E e \in EmailInputs : useLeads_createLead([email |-> e, status |-> undefined])
  \/ /\ now < MaxUiTime
     /\ \E id \in IdInputs, s \in validStatuses : useLeads_updateLeadStatus(id, s, undefined)
  \/ \E id \in IdInputs : useLeads_deleteLead(id)

UiSpec == Init /\ [][UiNext]_vars

(* --------------------------- contact fields ----------------------------- *)
\* a lead with its contact fields: the texts the hook rewrites are sequences of characters,
\* << >> being the absent or empty text
digits == {"0", "1", "2", "3", "4", "5", "6", "7", "8", "9"}

upperChar(c) == IF c \in DOMAIN upperOf THEN upperOf[c] ELSE c

\* \w of the regular expressions
isWordChar(c) == c \in letters \cup digits \cup {"_"}

\* str.replace(/\b\w+/g, word => word.charAt(0).toUpperCase() + word.slice(1).toLowerCase())
capitalizeWords(str) ==
  [i \in DOMAIN str |->
     IF ~isWordChar(str[i]) THEN str[i]
     ELSE IF i = 1 \/ ~isWordChar(str[i - 1]) THEN upperChar(str[i])
     ELSE lowerChar(str[i])]

\* phone.replace(/(?!^\+)\D/g, ''): every character that is not a digit goes, but a + that
\* is the first character
formatPhone(phone) ==
  LET kept == ascending({i \in DOMAIN phone : phone[i] \in digits \/ (i = 1 /\ phone[i] = "+")})
  IN [k \in DOMAIN kept |-> phone[kept[k]]]

\* String.prototype.trim, for the space character
trim(str) ==
  LET inked == {i \in DOMAIN str : str[i] # " "}
  IN IF inked = {} THEN << >>
     ELSE SubSeq(str, CHOOSE i \in inked : \A j \in inked : i <= j,
                      CHOOSE i \in inked : \A j \in inked : i >= j)

\* the first part of leadSchema.pre('save'): the phone, the generated name, the
\* capitalisation of the names and the trimmed company
normalizeContact(doc) ==
  LET name == IF doc.name = << >> /\ doc.firstName # << >> /\ doc.lastName # << >>
              THEN doc.firstName \o <<" ">> \o doc.lastName
              ELSE doc.name
  IN [doc EXCEPT
        !.phone = formatPhone(@),
        !.name = capitalizeWords(name),
        !.firstName = capitalizeWords(@),
        !.lastName = capitalizeWords(@),
        !.company = trim(@)]

\* the phone validator of the schema: 10 to 15 digits
isValidPhone(v) ==
  Cardinality({i \in DOMAIN v : v[i] \in digits}) >= 10
  /\ Cardinality({i \in DOMAIN v : v[i] \in digits}) <= 15

\* the name validators of the schema: letters, spaces, hyphens and apostrophes, the lengths,
\* and a name or both a first and a last name
isValidNames(doc) ==
  /\ \A f \in {"name", "firstName", "lastName"} :
        \A i \in DOMAIN doc[f] : doc[f][i] \in letters \cup {" ", "-", "'"}
  /\ doc.name # << >> => Len(doc.name) >= 2 /\ Len(doc.name) <= 50
  /\ doc.firstName # << >> => Len(doc.firstName) >= 2 /\ Len(doc.firstName) <= 25
  /\ doc.lastName # << >> => Len(doc.lastName) >= 2 /\ Len(doc.lastName) <= 25
  /\ doc.name # << >> \/ (doc.firstName # << >> /\ doc.lastName # << >>)

contactFields == {"name", "firstName", "lastName", "phone", "company", "source", "notes"}

\* the bodies of createLead requests as the controller receives them
ContactBodies ==
  { [name |-> <<"a", "b", "i", " ", "B", "O", "X">>, firstName |-> << >>, lastName |-> << >>,
     email |-> <<"A", "@", "x", ".", "i", "o">>,
     phone |-> <<"+", "1", " ", "(", "5", "5", "5", ")", " ", "1", "2", "3", "-", "4", "5",
                 "6", "7">>,
     company |-> <<" ", "x", "i", " ">>, source |-> undefined, notes |-> "met at expo"],
    [name |-> << >>, firstName |-> <<"b", "o">>, lastName |-> <<"O", "X", "-", "a", "b">>,
     email |-> <<"b", "@", "x", ".", "i", "o">>,
     phone |-> <<"5", "5", "5", ".", "1", "2", "3", ".", "4", "5", "6", "7">>,
     company |-> << >>, source |-> "referral", notes |-> undefined],
    [name |-> << >>, firstName |-> <<"b", "o">>, lastName |-> << >>,
     email |-> <<"a", "@", "x", ".", "i", "o">>,
     phone |-> <<"5", "5", "5">>,
     company |-> << >>, source |-> undefined, notes |-> undefined] }

\* new Lead(sanitizedData): sanitizeInput of the texts, the default source, the trim and
\* lowercase setters of the schema
newContact(body) ==
  [name |-> trim(sanitizeInput(trim(body.name))),
   firstName |-> trim(sanitizeInput(trim(body.firstName))),
   lastName |-> trim(sanitizeInput(trim(body.lastName))),
   email |-> toLowerCase(trim(sanitizeInput(trim(body.email)))),
   phone |-> trim(sanitizeInput(trim(body.phone))),
   company |-> trim(sanitizeInput(trim(body.company))),
   source |-> IF truthy(body.source) THEN body.source ELSE "website",
   notes |-> body.notes,
   status |-> "new",
   statusHistory |-> << >>,
   statusTimestamps |-> noTimestamps,
   createdAt |-> NoDate,
   updatedAt |-> NoDate]

\* createLead for a body with contact fields: the validation, the existence check, the
\* whole pre-save hook and the insert
createContact(body) ==
  LET doc == newContact(body)
      savedLead == [preSave(normalizeContact(doc), TRUE, FALSE, undefined, now)
                      EXCEPT !.createdAt = now, !.updatedAt = now]
  IN IF ~(isValidEmail(doc.email) /\ isValidPhone(doc.phone) /\ isValidNames(doc))
     THEN /\ res' = response("createLead", 400, "Validation failed", 0, undefined)
          /\ UNCHANGED <<leads, nextId, now, inflight>>
     ELSE IF findByEmail(doc.email) # {}
     THEN /\ res' = response("createLead", 409, "email", 0, undefined)
          /\ UNCHANGED <<leads, nextId, now, inflight>>
     ELSE /\ leads' = leads @@ (nextId :> savedLead)
          /\ nextId' = nextId + 1
          /\ now' = now + 1
          /\ res' = response("createLead", 201, "", 0, undefined)
          /\ UNCHANGED inflight

\* save() of a loaded lead with contact fields: the paths whose value the hook or
\* updateStatus changed are written, and updatedAt with them
savedContact(stored, loaded, doc) ==
  LET written == savedDocument(stored, loaded, doc)
      modified == {f \in contactFields \cup {"status", "statusHistory", "statusTimestamps"} :
                     doc[f] # loaded[f]}
  IN [f \in DOMAIN stored |->
        IF f \in contactFields /\ f \in modified THEN doc[f]
        ELSE IF f = "updatedAt" /\ modified # {} THEN now
        ELSE written[f]]

\* updateLeadStatus on a lead with contact fields: updateStatus and the whole hook of its
\* save(), whose first part touches no field of the status
updateContactStatus(id, status, notes) ==
  LET failure == updateLeadStatusCheck(id, status)
      doc == normalizeContact(updateStatus(leads[id], status, notes, now))
      dateRead == Len(doc.statusHistory) > Len(leads[id].statusHistory)
  IN IF failure # ""
     THEN /\ res' = response("updateLeadStatus", errorCode(failure), failure, id, undefined)
          /\ UNCHANGED <<leads, nextId, now, inflight>>
     ELSE /\ leads' = [leads EXCEPT ![id] = savedContact(@, @, doc)]
          /\ now' = IF dateRead THEN now + 1 ELSE now
          /\ res' = response("updateLeadStatus", 200, "", id, undefined)
          /\ UNCHANGED <<nextId, inflight>>

ContactNext ==
  \/ /\ now < MaxNoteTime /\ nextId <= MaxIds
     /\ \E body \in ContactBodies : createContact(body)
     /\ UNCHANGED useLeads
  \/ /\ now < MaxNoteTime
     /\ \E id \in IdInputs, s \in StatusInputs, n \in BulkNotesInputs :
          updateContactStatus(id, s, n)
     /\ UNCHANGED useLeads
  \/ /\ \E id \in IdInputs : deleteLead(id)
     /\ UNCHANGED useLeads

ContactSpec == Init /\ [][ContactNext]_vars

(* --------------------------- notes of a status change ------------------- *)
\* maxlength of statusHistory.notes and of the notes of the request validators
notesMaxlength == 200

\* a note of 201 characters
longNote == "xxxxxxxxxxxxxxxxxxxxxxxxxxxxxxxxxxxxxxxxxxxxxxxxxxxxxxxxxxxxxxxxxxxxxxxxxxxxxxxxxxxxxxxxxxxxxxxxxxxxxxxxxxxxxxxxxxxxxxxxxxxxxxxxxxxxxxxxxxxxxxxxxxxxxxxxxxxxxxxxxxxxxxxxxxxxxxxxxxxxxxxxxxxxxxxxxxxxxxxxx"

RouteNotesInputs == {undefined, "called", longNote}

\* the chain validateUpdateStatus: the fields whose validators record an error on the request
validateUpdateStatus(id, status, notes) ==
  {f \in {"id", "status", "notes"} :
     \/ f = "id" /\ ~isMongoId(id)
     \/ f = "status" /\ (~truthy(status) \/ status \notin validStatuses)
     \/ f = "notes" /\ notes # undefined /\ Len(notes) > notesMaxlength}

\* PATCH /:id/status: validateUpdateStatus records its errors on the request, and
\* updateLeadStatus, which does not read them, handles the request whatever they are; the
\* schema validation of save() has run when the hook pushes the entry with the notes
patchLeadStatus(id, status, notes) == updateLeadStatus(id, status, notes)

NoteNext ==
  \/ /\ now < MaxNoteTime /\ nextId <= MaxIds
     /\ \E e \in EmailInputs : createLead([email |-> e, status |-> undefined])
     /\ UNCHANGED useLeads
  \/ /\ now < MaxNoteTime
     /\ \E id \in IdInputs, s \in StatusInputs, n \in RouteNotesInputs :
          patchLeadStatus(id, s, n)
     /\ UNCHANGED useLeads

NoteSpec == Init /\ [][NoteNext]_vars

(* ------------------------- overlapping creations ------------------------ *)
\* createLead up to its await of Lead.findByEmail: the request holds its body and the data
\* it will construct the document from
findExisting(body) ==
  LET normalized == [body EXCEPT !.email = toLowerCase(body.email)]
      data == sanitizedData(normalized)
  IN /\ IF ~isValidEmail(body.email)
        THEN /\ res' = response("createLead", 400, "Validation failed", 0, body.status)
             /\ UNCHANGED inflight
        ELSE IF findByEmail(data.email) # {}
        THEN /\ res' = response("createLead", 409, "email", 0, body.status)
             /\ UNCHANGED inflight
        ELSE /\ inflight' = inflight \cup {[body |-> body, data |-> data]}
             /\ UNCHANGED res
     /\ UNCHANGED <<leads, nextId, now>>

\* the rest of createLead: new Lead(sanitizedData), its save() and the response; the hook
\* has read the clock when the insert is refused by the unique index (error code 11000)
saveNewLead(r) ==
  LET doc == newLead(r.data)
      savedLead == [preSave(doc, TRUE, FALSE, undefined, now) EXCEPT !.createdAt = now]
  IN /\ r \in inflight
     /\ inflight' = inflight \ {r}
     /\ IF ~isValidDocument(doc)
        THEN /\ res' = response("createLead", 400, "Validation failed", 0, r.body.status)
             /\ UNCHANGED <<leads, nextId, now>>
        ELSE IF uniqueIndexViolated(doc)
        THEN /\ res' = response("createLead", 409, "email", 0, r.body.status)
             /\ now' = now + 1
             /\ UNCHANGED <<leads, nextId>>
        ELSE /\ leads' = leads @@ (nextId :> savedLead)
             /\ nextId' = nextId + 1
             /\ now' = now + 1
             /\ res' = response("createLead", 201, "", 0, r.body.status)

\* two creations at a time, overlapping each other and deletions
CreateRaceNext ==
  \/ /\ nextId + Cardinality(inflight) <= MaxIds /\ Cardinality(inflight) < 2
     /\ \E e \in EmailInputs : findExisting([email |-> e, status |-> undefined])
     /\ UNCHANGED useLeads
  \/ /\ \E r \in inflight : saveNewLead(r)
     /\ UNCHANGED useLeads
  \/ /\ \E id \in IdInputs : deleteLead(id)
     /\ UNCHANGED useLeads

CreateRaceSpec == Init /\ [][CreateRaceNext]_vars

(* ------------------------- a lead with a history ------------------------ *)
\* the histories a lead can have after some transitions, one at a time: the first entry is
\* that of the creation, later entries are later in time and change the status
StoredHistories ==
  UNION {{[i \in 1..Cardinality(T) |->
             [status |-> st[i], timestamp |-> ascending(T)[i], notes |-> undefined]] :
            st \in {f \in [1..Cardinality(T) -> validStatuses] :
                      /\ f[1] = "new"
                      /\ \A i \in 1..(Cardinality(T) - 1) : f[i] # f[i + 1]}} :
         T \in {S \in SUBSET (1..MaxStamp) : Cardinality(S) \in 1..MaxHistory}}

\* the stored lead whose transitions left the history h
documentWith(h) ==
  LET firstAt(s) == IF \E i \in DOMAIN h : h[i].status = s
                    THEN h[CHOOSE i \in DOMAIN h :
                             h[i].status = s /\ \A j \in 1..(i - 1) : h[j].status # s].timestamp
                    ELSE NoDate
  IN [email |-> <<"a", "@", "x", ".", "i", "o">>,
      status |-> h[Len(h)].status,
      statusHistory |-> h,
      statusTimestamps |-> [connectedAt |-> firstAt("connected"),
                            qualifiedAt |-> firstAt("qualified"),
                            convertedAt |-> firstAt("converted")],
      createdAt |-> h[1].timestamp]

MetricsInit ==
  /\ \E h \in StoredHistories : leads = 1 :> documentWith(h)
  /\ nextId = 2
  /\ now = MaxStamp + 1
  /\ inflight = {}
  /\ res = response("none", 0, "", 0, undefined)
  /\ useLeads = useState

\* the history of the lead is read
MetricsNext ==
  /\ \E id \in IdInputs : getLeadStatusHistory(id)
  /\ UNCHANGED useLeads

MetricsSpec == MetricsInit /\ [][MetricsNext]_vars

\* two updates at a time, overlapping each other on the same few leads
RaceNext ==
  \/ /\ now < MaxRaceTime /\ nextId <= MaxRaceIds
     /\ \E e \in EmailInputs : createLead([email |-> e, status |-> undefined])
     /\ UNCHANGED useLeads
  \/ /\ now < MaxRaceTime /\ Cardinality(inflight) < 2
     /\ \E id \in 0..MaxRaceIds, s \in validStatuses, n \in BulkNotesInputs :
          findLead(id, s, n)
     /\ UNCHANGED useLeads
  \/ /\ now < MaxRaceTime
     /\ \E r \in inflight : saveLead(r)
     /\ UNCHANGED useLeads

RaceSpec == Init /\ [][RaceNext]_vars

(* ------------------------------ claims --------------------------------- *)
\* Every step of Spec is one request, and res' names the handler that answered it, the id
\* an updateLeadStatus request carried and the status a createLead body carried; the
\* properties below range over the requests a step can be the handling of.
stageFields == {"connectedAt", "qualifiedAt", "convertedAt"}

stageOf(status) ==
  CASE status = "connected" -> "connectedAt"
    [] status = "qualified" -> "qualifiedAt"
    [] status = "converted" -> "convertedAt"

last(h) == h[Len(h)]

sameUpToCase(a, b) ==
  /\ Len(a) = Len(b)
  /\ \A i \in 1..Len(a) : lowerChar(a[i]) = lowerChar(b[i])

CreateBodies == [email : EmailInputs, status : StatusInputs]

\* C1: a lead stored by createLead has status 'new', a history of exactly one entry with
\* status 'new' and no stage timestamp, whatever status the request body carried.
C1_CreatedLeadIsNew ==
  [][(res'.op = "createLead" /\ res'.code = 201) =>
       \A body \in {b \in CreateBodies : b.status = res'.status} :
          createLead(body) =>
          LET l == leads'[nextId]
          IN /\ l.status = "new"
             /\ Len(l.statusHistory) = 1
             /\ l.statusHistory[1].status = "new"
             /\ \A f \in stageFields : l.statusTimestamps[f] = NoDate]_vars

C1_Witness ==
  /\ res.op = "createLead" /\ res.code = 201 /\ res.status = "converted"
  /\ \E id \in DOMAIN leads : leads[id].status = "new" /\ Len(leads[id].statusHistory) = 1

\* C2 as stated: every successful updateLeadStatus appends exactly one history entry, also
\* when the requested status is the one the lead already holds.
C2_EveryTransitionAppends ==
  [][(res'.op = "updateLeadStatus" /\ res'.code = 200) =>
       \A id \in DOMAIN leads \cap {res'.id}, s \in validStatuses, n \in NotesInputs :
          updateLeadStatus(id, s, n) =>
          Len(leads'[id].statusHistory) = Len(leads[id].statusHistory) + 1]_vars

\* C2 amended: a successful updateLeadStatus to a status other than the current one appends
\* exactly one history entry and one to the current status appends none, so a history has
\* one entry more than the number of status changes made since creation.
C2_StatusChangeAppendsOne ==
  [][(res'.op = "updateLeadStatus" /\ res'.code = 200) =>
       \A id \in DOMAIN leads \cap {res'.id}, s \in validStatuses, n \in NotesInputs :
          updateLeadStatus(id, s, n) =>
          Len(leads'[id].statusHistory) =
             Len(leads[id].statusHistory) + (IF s # leads[id].status THEN 1 ELSE 0)]_vars

C2_Witness ==
  /\ res.op = "updateLeadStatus" /\ res.code = 200
  /\ res.id \in DOMAIN leads
  /\ Len(leads[res.id].statusHistory) = 3

\* C3: updating a lead to the status it already holds leaves its statusHistory unchanged.
C3_SameStatusNoDuplicate ==
  [][res'.op = "updateLeadStatus" =>
       \A id \in DOMAIN leads \cap {res'.id}, n \in NotesInputs :
          updateLeadStatus(id, leads[id].status, n) =>
          /\ res'.code = 200
          /\ leads'[id].statusHistory = leads[id].statusHistory]_vars

\* the only successful update that leaves a history of one entry is one to 'new' on a new lead
C3_Witness ==
  /\ res.op = "updateLeadStatus" /\ res.code = 200
  /\ res.id \in DOMAIN leads
  /\ Len(leads[res.id].statusHistory) = 1

\* C4: a stage timestamp that is set is never changed or cleared by a later step.
C4_StageTimestampSetOnce ==
  [][\A id \in DOMAIN leads \cap DOMAIN leads' : \A f \in stageFields :
       leads[id].statusTimestamps[f] # NoDate =>
          leads'[id].statusTimestamps[f] = leads[id].statusTimestamps[f]]_vars

\* new -> connected -> qualified -> connected, with both stamps at their first values
C4_Witness ==
  \E id \in DOMAIN leads :
    LET h == leads[id].statusHistory
    IN /\ Len(h) = 4
       /\ h[2].status = "connected" /\ h[3].status = "qualified" /\ h[4].status = "connected"
       /\ leads[id].statusTimestamps.connectedAt = h[2].timestamp
       /\ leads[id].statusTimestamps.qualifiedAt = h[3].timestamp
       /\ h[4].timestamp > h[2].timestamp

storedNotes(n) == IF truthy(n) THEN n ELSE undefined

transitionEffect(id, s, n) ==
  /\ leads'[id].status = s
  /\ last(leads'[id].statusHistory) = [status |-> s, timestamp |-> now, notes |-> storedNotes(n)]
  /\ (s # "new" /\ leads[id].statusTimestamps[stageOf(s)] = NoDate) =>
        leads'[id].statusTimestamps[stageOf(s)] = now

\* C5 as stated: after any successful updateLeadStatus(id, s, note) the lead has status s,
\* its last history entry is {s, now, note} and an unset stage timestamp of s is now.
C5_TransitionEffectAlways ==
  [][(res'.op = "updateLeadStatus" /\ res'.code = 200) =>
       \A id \in DOMAIN leads \cap {res'.id}, s \in validStatuses, n \in NotesInputs :
          updateLeadStatus(id, s, n) => transitionEffect(id, s, n)]_vars

\* C5 amended: the effect is that of C5 when s differs from the status the lead holds;
\* when s is the status it holds the stored lead is left as it was.
C5_TransitionEffectOnChange ==
  [][(res'.op = "updateLeadStatus" /\ res'.code = 200) =>
       \A id \in DOMAIN leads \cap {res'.id}, s \in validStatuses, n \in NotesInputs :
          updateLeadStatus(id, s, n) =>
          IF s # leads[id].status THEN transitionEffect(id, s, n) ELSE leads' = leads]_vars

C5_Witness ==
  /\ res.op = "updateLeadStatus" /\ res.code = 200
  /\ res.id \in DOMAIN leads
  /\ LET l == leads[res.id]
     IN /\ Len(l.statusHistory) = 2
        /\ last(l.statusHistory) = [status |-> "qualified", timestamp |-> now - 1,
                                    notes |-> "called"]
        /\ l.statusTimestamps.qualifiedAt = now - 1

\* C6: for a stored lead every status of the enum is accepted as the next status, whatever
\* status the lead holds, and the update then succeeds and stores that status.
C6_AllTransitionsSucceed ==
  /\ [](\A id \in DOMAIN leads, t \in validStatuses : updateLeadStatusCheck(id, t) = "")
  /\ [][res'.op = "updateLeadStatus" =>
          \A id \in DOMAIN leads \cap {res'.id}, t \in validStatuses, n \in NotesInputs :
             updateLeadStatus(id, t, n) => (res'.code = 200 /\ leads'[id].status = t)]_vars

\* a lead that was moved out of converted, back to new
C6_Witness ==
  /\ res.op = "updateLeadStatus" /\ res.code = 200
  /\ \E id \in DOMAIN leads :
       LET h == leads[id].statusHistory
       IN Len(h) = 3 /\ h[2].status = "converted" /\ h[3].status = "new"
          /\ leads[id].status = "new"

\* C7: a status outside the enum is answered 400 'Invalid status' and nothing stored
\* changes, for an id that resolves, one that does not and a malformed one.
C7_InvalidStatusRejected ==
  [][res'.op = "updateLeadStatus" =>
       \A id \in IdInputs \cap {res'.id}, s \in StatusInputs \ validStatuses, n \in NotesInputs :
          updateLeadStatus(id, s, n) =>
          /\ res'.code = 400 /\ res'.info = "Invalid status"
          /\ leads' = leads]_vars

C7_Witness ==
  /\ res.op = "updateLeadStatus" /\ res.code = 400 /\ res.info = "Invalid status"
  /\ isMongoId(res.id) /\ res.id \notin DOMAIN leads
  /\ DOMAIN leads # {}

\* C8: the history of a lead before a step is a prefix of its history after the step, and
\* the first entry of every history has status 'new'.
C8_HistoryAppendOnly ==
  /\ [](\A id \in DOMAIN leads : leads[id].statusHistory[1].status = "new")
  /\ [][\A id \in DOMAIN leads \cap DOMAIN leads' :
          isPrefix(leads[id].statusHistory, leads'[id].statusHistory)]_vars

C8_Witness ==
  \E id \in DOMAIN leads :
    /\ Len(leads[id].statusHistory) = 4
    /\ leads[id].statusHistory[4].status = "new"
    /\ leads[id].statusHistory[3].status = "converted"

\* C9: in every state of the collection, also between the findById and the save of
\* overlapping updates, a lead's status is the status of its last history entry, and the
\* stage timestamp of that status is set.
C9_StatusIsLastHistoryEntry ==
  \A id \in DOMAIN leads :
    /\ leads[id].status = last(leads[id].statusHistory).status
    /\ leads[id].status # "new" => leads[id].statusTimestamps[stageOf(leads[id].status)] # NoDate

\* a read answered while an update holds a document that another update has since changed
C9_Witness ==
  /\ res.op = "getLeadById" /\ res.code = 200
  /\ \E r \in inflight :
       /\ r.id = res.id
       /\ r.id \in DOMAIN leads
       /\ Len(leads[r.id].statusHistory) > Len(r.lead.statusHistory)

\* the request emails the validator accepts
ValidEmailInputs == {v \in EmailInputs : isValidEmail(v)}

\* C10: a createLead whose email equals a stored lead's email up to letter case is answered
\* 409 with field 'email' and stores nothing, one whose valid email no stored lead has is
\* answered 201, and no two stored leads have the same email up to letter case.
C10_EmailUnique ==
  /\ [](\A i, j \in DOMAIN leads : i # j => ~sameUpToCase(leads[i].email, leads[j].email))
  /\ [][(res'.op = "createLead" /\ res'.code # 400) =>
          \A e \in ValidEmailInputs :
             \/ IF \E id \in DOMAIN leads : sameUpToCase(leads[id].email, e)
                THEN res'.code = 409 /\ res'.info = "email" /\ leads' = leads
                ELSE res'.code = 201 /\ DOMAIN leads' = DOMAIN leads \cup {nextId}
             \/ ~createLead([email |-> e, status |-> res'.status])]_vars

\* a second createLead refused while the first lead is the only one stored
C10_Witness ==
  /\ res.op = "createLead" /\ res.code = 409 /\ res.info = "email"
  /\ Cardinality(DOMAIN leads) = 1 /\ nextId = 2

(* --------------------------- claims: batches ---------------------------- *)
\* In BulkSpec at most one batch is in flight; its record holds the documents its find
\* returned, and the step of its last turn carries the response in res'.
noDuplicates(seq) == Cardinality(elements(seq)) = Len(seq)

idsOf(items) == {items[i].id : i \in DOMAIN items}

\* the array positions naming an id that is not among the documents found
missing(leadIds, found) == {i \in DOMAIN leadIds : leadIds[i] \notin idsOf(found)}

\* the turn after which the batch is answered
lastTurn(r) == Len(r.successful) + Len(r.failed) + 1 = Len(r.leads)

\* the find of a batch returns exactly the stored leads the array names
foundAreTheStored ==
  [][(inflight = {} /\ inflight' # {}) =>
       \A r \in inflight' : idsOf(r.leads) = elements(r.leadIds) \cap DOMAIN leads]_vars

\* C11 as stated: a batch of k >= 1 existing and m nonexistent ids reports k successes and
\* m failures, found = k and requested = k + m.
C11_MissingIdsAreFailures ==
  [][(res'.op = "bulkUpdateLeadStatus" /\ res'.code = 200) =>
       \A r \in inflight :
          (lastTurn(r) /\ bulkSaveItem(r) /\ noDuplicates(r.leadIds)) =>
             LET k == Len(r.leads)
                 m == Cardinality(missing(r.leadIds, r.leads))
             IN /\ res'.summary.successful = k
                /\ res'.summary.failed = m
                /\ res'.summary.found = k
                /\ res'.summary.requested = k + m]_vars

\* C11 amended: such a batch reports found = k and requested = k + m, and the k found leads
\* are split between the two lists (successful + failed = k); an id that resolves to no
\* lead is in neither list and is not counted as a failure.
C11_MissingIdsAreNotListed ==
  /\ foundAreTheStored
  /\ [][(res'.op = "bulkUpdateLeadStatus" /\ res'.code = 200) =>
          \A r \in inflight :
             (lastTurn(r) /\ bulkSaveItem(r) /\ noDuplicates(r.leadIds)) =>
                LET k == Len(r.leads)
                    m == Cardinality(missing(r.leadIds, r.leads))
                IN /\ k >= 1
                   /\ res'.summary.found = k
                   /\ res'.summary.requested = k + m
                   /\ res'.summary.successful = Len(res'.successful)
                   /\ res'.summary.failed = Len(res'.failed)
                   /\ res'.summary.successful + res'.summary.failed = k
                   /\ idsOf(res'.successful) \cup idsOf(res'.failed) = idsOf(r.leads)
                   /\ idsOf(res'.successful) \cap idsOf(res'.failed) = {}]_vars

\* one existing and one nonexistent id: one success, no failure
C11_Witness ==
  /\ res.op = "bulkUpdateLeadStatus" /\ res.code = 200
  /\ noDuplicates(res.leadIds)
  /\ res.summary = [requested |-> 2, found |-> 1, successful |-> 1, failed |-> 0]

\* the arrays of 1..100 well-formed ids among the inputs
WellFormedLeadIds ==
  {ids \in LeadIdsInputs : Len(ids) >= 1 /\ \A i \in DOMAIN ids : isMongoId(ids[i])}

singleTransition(id, s, n) ==
  savedDocument(leads[id], leads[id], updateStatus(leads[id], s, n, now))

\* C13: a turn of the batch on a lead that is still stored leaves that lead as the single
\* updateLeadStatus with the same status and notes would, and every other lead as it was;
\* a turn that fails changes no lead, so the leads the batch has updated stay updated.
C13_BulkIsSingleTransitions ==
  [][inflight # {} =>
       \A r \in inflight :
          bulkSaveItem(r) =>
             LET i == Len(r.successful) + Len(r.failed) + 1
                 id == r.leads[i].id
             IN IF id \in DOMAIN leads
                THEN /\ leads'[id] = singleTransition(id, r.status, r.notes)
                     /\ leads'[id].status = r.status
                     /\ \A k \in DOMAIN leads \ {id} : leads'[k] = leads[k]
                     /\ DOMAIN leads' = DOMAIN leads
                ELSE leads' = leads]_vars

\* a batch answered with one lead updated and one failed, the updated lead still updated
C13_Witness ==
  /\ res.op = "bulkUpdateLeadStatus" /\ res.code = 200
  /\ Len(res.successful) = 1 /\ Len(res.failed) = 1
  /\ LET id == res.successful[1].id
     IN /\ id \in DOMAIN leads
        /\ leads[id].status = "converted"
        /\ Len(leads[id].statusHistory) = 2
        /\ last(leads[id].statusHistory).notes = "called"

(* ---------------------- claims: deletion and reads ---------------------- *)
\* In ApiSpec every step is one request and res' names its handler. The driver hands out
\* the ids 1, 2, ... in turn, so the ids below nextId that are not stored are the ids of
\* the leads that were deleted.
deletedIds == {id \in 1..(nextId - 1) : id \notin DOMAIN leads}

regressed(lead) ==
  \E i \in DOMAIN lead.statusHistory :
     indexOf(lead.statusHistory[i].status) > indexOf(lead.status)

ordered(funnel) ==
  /\ funnel.total >= funnel.connected
  /\ funnel.connected >= funnel.qualified
  /\ funnel.qualified >= funnel.converted
  /\ funnel.converted >= 0

\* C15: when no stored lead has regressed, the funnel of getLeadProgressionAnalytics has
\* total >= connected >= qualified >= converted >= 0.
C15_FunnelOrderedWithoutRegression ==
  [][res'.op = "getLeadProgressionAnalytics" =>
       ((\A id \in DOMAIN leads : ~regressed(leads[id])) =>
           ordered(res'.data.conversionFunnel))]_vars

C15_Witness ==
  /\ res.op = "getLeadProgressionAnalytics"
  /\ \A id \in DOMAIN leads : ~regressed(leads[id])
  /\ res.data.conversionFunnel.total = 2
  /\ res.data.conversionFunnel.connected = 1
  /\ res.data.conversionFunnel.qualified = 1
  /\ \E id \in DOMAIN leads : leads[id].status = "qualified"

\* C16 as stated: some population with a regressed lead is reached whose funnel counts
\* are not in the order total >= connected >= qualified >= converted.
C16_RegressionBreaksOrder ==
  <>(/\ res.op = "getLeadProgressionAnalytics"
     /\ \E id \in DOMAIN leads : regressed(leads[id])
     /\ ~ordered(res.data.conversionFunnel))

\* C16 amended: the funnel counts of every population, also of one with regressed leads,
\* are in the order total >= connected >= qualified >= converted >= 0.
C16_FunnelAlwaysOrdered ==
  [][res'.op = "getLeadProgressionAnalytics" => ordered(res'.data.conversionFunnel)]_vars

\* the funnel of a population whose lead went to qualified and back to new
C16_Witness ==
  /\ res.op = "getLeadProgressionAnalytics"
  /\ \E id \in DOMAIN leads :
        /\ regressed(leads[id])
        /\ leads[id].status = "new"
        /\ leads[id].statusTimestamps.qualifiedAt # NoDate
  /\ res.data.conversionFunnel.total = Cardinality(DOMAIN leads)
  /\ res.data.conversionFunnel.qualified = 0

holding(statuses) == Cardinality({id \in DOMAIN leads : leads[id].status \in statuses})

\* C17: the funnel counts the leads by the status they hold when it is computed:
\* connected those connected, qualified or converted, qualified those qualified or
\* converted, converted those converted, total all of them.
C17_FunnelFromCurrentStatus ==
  [][res'.op = "getLeadProgressionAnalytics" =>
       LET funnel == res'.data.conversionFunnel
       IN /\ funnel.total = Cardinality(DOMAIN leads)
          /\ funnel.connected = holding({"connected", "qualified", "converted"})
          /\ funnel.qualified = holding({"qualified", "converted"})
          /\ funnel.converted = holding({"converted"})]_vars

\* a lead that reached connected and is new again is not counted as connected
C17_Witness ==
  /\ res.op = "getLeadProgressionAnalytics"
  /\ res.data.conversionFunnel.total = 1
  /\ res.data.conversionFunnel.connected = 0
  /\ \E id \in DOMAIN leads :
        leads[id].status = "new" /\ leads[id].statusTimestamps.connectedAt # NoDate
  /\ deletedIds # {}

\* C18: getLeadStats gives each status held by some lead the number of leads holding it
\* and no entry to a status no lead holds, and its total is the number of stored leads
\* and the sum of the counts.
C18_StatusCounts ==
  [][res'.op = "getLeadStats" =>
       LET byStatus == res'.data.byStatus
           count(s) == IF s \in DOMAIN byStatus THEN byStatus[s] ELSE 0
       IN /\ DOMAIN byStatus \subseteq validStatuses
          /\ \A s \in DOMAIN byStatus : byStatus[s] >= 1
          /\ \A s \in validStatuses : count(s) = holding({s})
          /\ res'.data.total = Cardinality(DOMAIN leads)
          /\ res'.data.total = count("new") + count("connected") + count("qualified")
                                + count("converted")]_vars

C18_Witness ==
  /\ res.op = "getLeadStats"
  /\ res.data.total = 2
  /\ DOMAIN res.data.byStatus = {"new", "converted"}
  /\ res.data.byStatus["converted"] = 1

reached(field) == {id \in DOMAIN leads : leads[id].statusTimestamps[field] # NoDate}

\* the mean of stageTimestamp - createdAt over the leads that have the stage timestamp
meanOver(field) ==
  IF reached(field) = {} THEN nullAverage
  ELSE [sum |-> sum([id \in reached(field) |->
                       (leads[id].statusTimestamps[field] - leads[id].createdAt) * msPerHour],
                    reached(field)),
        count |-> Cardinality(reached(field))]

\* C19: each average progression time is the mean of stageTimestamp - createdAt over
\* exactly the leads that have that stage timestamp; a lead without it adds nothing to
\* the sum and nothing to the divisor.
C19_AverageOverLeadsWithTimestamp ==
  [][res'.op = "getLeadProgressionAnalytics" =>
       LET raw == res'.data.averageProgressionTimes.raw
           mean(name) == IF name \in DOMAIN raw THEN raw[name] ELSE nullAverage
       IN /\ mean("avgTimeToConnect") = meanOver("connectedAt")
          /\ mean("avgTimeToQualify") = meanOver("qualifiedAt")
          /\ mean("avgTimeToConvert") = meanOver("convertedAt")]_vars

\* two leads with a stage timestamp, one of them without connectedAt: the mean is over one
C19_Witness ==
  /\ res.op = "getLeadProgressionAnalytics"
  /\ Cardinality(DOMAIN leads) = 2
  /\ Cardinality(reached("connectedAt")) = 1
  /\ Cardinality(reached("qualifiedAt")) = 1
  /\ reached("connectedAt") # reached("qualifiedAt")
  /\ res.data.averageProgressionTimes.raw.avgTimeToConnect.count = 1

readHandlers == {"getLeadById", "getAllLeads", "getLeadStatusHistory", "getLeadStats",
                 "getLeadProgressionAnalytics"}

\* C20: a step in which a read handler answers (getLeadById, getAllLeads,
\* getLeadStatusHistory with its progression metrics, getLeadStats,
\* getLeadProgressionAnalytics) leaves every stored lead as it was, also when updates are
\* between their find and their save.
C20_ReadsChangeNothing ==
  [][(res' # res /\ res'.op \in readHandlers) =>
       (leads' = leads /\ nextId' = nextId /\ inflight' = inflight)]_vars

\* a lead's history read while an update of that lead is between its find and its save
C20_Witness ==
  /\ res.op = "getLeadStatusHistory" /\ res.code = 200
  /\ \E r \in inflight : r.id = res.id /\ r.status # r.lead.status
  /\ res.id \in DOMAIN leads
  /\ res.data.statusHistory = leads[res.id].statusHistory

(* ------------------------ claims: overlapping updates ------------------- *)
\* In RaceSpec a step that removes a request from inflight is the save of that request;
\* its read is stale when the stored lead is no longer the document it loaded.
saved(r) == r \in inflight /\ r \notin inflight' /\ res'.code = 200 /\ res'.id = r.id

stale(r) == r.id \in DOMAIN leads /\ leads[r.id] # r.lead

lastStay(h, s) ==
  CHOOSE i \in 1..(Len(h) - 1) :
     h[i].status = s /\ \A j \in (i + 1)..(Len(h) - 1) : h[j].status # s

\* C22: the progression metrics of a lead with history h report the statuses of all
\* entries of h but the last as the keys of timeInEachStatus, for each of them the length of
\* its most recent completed stay, and Len(h) - 1 as totalProgressions.
C22_TimeOfMostRecentStay ==
  (res.op = "getLeadStatusHistory" /\ res.code = 200) =>
     LET h == leads[res.id].statusHistory
         metrics == res.data.progressionMetrics
     IN /\ DOMAIN metrics.timeInEachStatus = {h[i].status : i \in 1..(Len(h) - 1)}
        /\ \A s \in DOMAIN metrics.timeInEachStatus :
              metrics.timeInEachStatus[s] =
                (h[lastStay(h, s) + 1].timestamp - h[lastStay(h, s)].timestamp) * msPerHour
        /\ metrics.totalProgressions = Len(h) - 1

\* the metrics of a lead that stayed twice in a status, for different lengths of time
C22_Witness ==
  /\ res.op = "getLeadStatusHistory" /\ res.code = 200
  /\ LET h == leads[res.id].statusHistory
     IN \E i, j \in 1..(Len(h) - 1) :
           /\ i < j /\ h[i].status = h[j].status
           /\ h[i + 1].timestamp - h[i].timestamp # h[j + 1].timestamp - h[j].timestamp

\* the save of r overlaps another update of its lead
overlapping(r) == stale(r) \/ \E q \in inflight \ {r} : q.id = r.id

\* C25 as stated: when two updates of a lead overlap and both succeed, each appends its
\* entry to the stored history, which keeps the entries it had, in the order of the saves.
C25_BothEntriesAppended ==
  [][\A r \in inflight :
       (saved(r) /\ overlapping(r)) =>
          /\ isPrefix(leads[r.id].statusHistory, leads'[r.id].statusHistory)
          /\ Len(leads'[r.id].statusHistory) = Len(leads[r.id].statusHistory) + 1
          /\ last(leads'[r.id].statusHistory).status = r.status]_vars

\* C25 amended: of two overlapping updates that both succeed, each one whose status differs
\* from the status it read appends its entry after the entries stored, none of which is
\* lost; one whose status is the status it read appends nothing.
C25_EntriesOfStatusChangesAppended ==
  [][\A r \in inflight :
       (saved(r) /\ overlapping(r)) =>
          /\ isPrefix(leads[r.id].statusHistory, leads'[r.id].statusHistory)
          /\ IF r.status # r.lead.status
             THEN /\ Len(leads'[r.id].statusHistory) = Len(leads[r.id].statusHistory) + 1
                  /\ last(leads'[r.id].statusHistory) =
                       [status |-> r.status, timestamp |-> now, notes |-> storedNotes(r.notes)]
             ELSE leads'[r.id].statusHistory = leads[r.id].statusHistory]_vars

\* two overlapping updates to connected both appended their entry, the second one having
\* read the lead before the first was saved
C25_Witness ==
  /\ inflight = {}
  /\ \E id \in DOMAIN leads :
       LET h == leads[id].statusHistory
       IN /\ Len(h) = 3
          /\ h[2].status = "connected" /\ h[3].status = "connected"
          /\ h[2].timestamp < h[3].timestamp
          /\ leads[id].statusTimestamps.connectedAt = h[3].timestamp

(* ------------------------- claims: stage timestamps --------------------- *)
stages == {"connected", "qualified", "converted"}

\* the positions of the history entries with status s
entriesWith(h, s) == {i \in DOMAIN h : h[i].status = s}

firstEntryWith(h, s) == CHOOSE i \in entriesWith(h, s) : \A j \in entriesWith(h, s) : i <= j

\* C23: in every reachable state the stage timestamp of s is set exactly when the history
\* has an entry with status s, and it is then the timestamp of the first such entry.
C23_StageTimestampIsFirstEntry ==
  \A id \in DOMAIN leads, s \in stages :
     LET h == leads[id].statusHistory
         stamp == leads[id].statusTimestamps[stageOf(s)]
     IN /\ stamp # NoDate <=> entriesWith(h, s) # {}
        /\ entriesWith(h, s) # {} => stamp = h[firstEntryWith(h, s)].timestamp

(* ------------------------- claims: overlapping creations ---------------- *)
\* C24: when creations with the same email overlap so that both pass the existence check
\* before either inserts, no two stored leads have that email, and the request whose insert
\* finds the email stored is answered 409 with field 'email' and stores nothing.
C24_DuplicateInsertRefused ==
  /\ [](\A i, j \in DOMAIN leads : i # j => ~sameUpToCase(leads[i].email, leads[j].email))
  /\ [][\A r \in inflight :
          (r \notin inflight' /\ res'.op = "createLead") =>
             IF \E id \in DOMAIN leads : sameUpToCase(leads[id].email, r.body.email)
             THEN res'.code = 409 /\ res'.info = "email" /\ leads' = leads
             ELSE res'.code = 201 /\ DOMAIN leads' = DOMAIN leads \cup {nextId}]_vars

\* the second of two overlapping creations was refused at its insert: the clock was read
\* twice and one lead is stored
C24_Witness ==
  /\ res.op = "createLead" /\ res.code = 409 /\ res.info = "email"
  /\ inflight = {}
  /\ nextId = 2 /\ now = 3
  /\ Cardinality(DOMAIN leads) = 1

(* ------------------------- claims: long notes --------------------------- *)
\* C26: a status update whose note is longer than 200 characters is rejected and leaves
\* the stored leads as they were, and every note stored in a history has at most 200
\* characters.
C26_LongNoteRejected ==
  /\ [][res'.op = "updateLeadStatus" =>
          \A id \in IdInputs \cap {res'.id}, s \in StatusInputs :
             patchLeadStatus(id, s, longNote) =>
                /\ "notes" \in validateUpdateStatus(id, s, longNote)
                /\ res'.code # 200
                /\ leads' = leads]_vars
  /\ [](\A id \in DOMAIN leads :
          \A i \in DOMAIN leads[id].statusHistory :
             leads[id].statusHistory[i].notes # undefined =>
                Len(leads[id].statusHistory[i].notes) <= notesMaxlength)

(* ------------------------- claims: size of a batch ---------------------- *)
OutOfRangeLeadIds == {ids \in LimitLeadIdsInputs : Len(ids) = 0 \/ Len(ids) > bulkLimit}

\* C27: a batch with an empty id list or with more than 100 ids is rejected as a whole,
\* whatever its status, and a rejected batch modifies no stored lead; the batches that are
\* taken up carry 1 to 100 ids.
C27_BatchSizeRejected ==
  /\ [](inflight = {} =>
          \A ids \in OutOfRangeLeadIds, s \in StatusInputs :
             bulkErrorCode(bulkUpdateLeadStatusCheck(ids, s)) = 400)
  /\ [][(res' # res /\ res'.op = "bulkUpdateLeadStatus" /\ res'.code # 200) =>
          (leads' = leads /\ inflight' = inflight)]_vars
  /\ [][(inflight = {} /\ inflight' # {}) =>
          \A r \in inflight' : Len(r.leadIds) \in 1..bulkLimit]_vars

\* a batch of 101 ids was rejected while a lead that an earlier batch moved is stored
C27_Witness ==
  /\ res.op = "bulkUpdateLeadStatus" /\ res.code = 400
  /\ res.info = "Cannot update more than 100 leads at once"
  /\ \E id \in DOMAIN leads :
       /\ leads[id].status = "connected"
       /\ Len(leads[id].statusHistory) = 2

(* ------------------------- claims: outcome of a batch item -------------- *)
\* the document the batch r loaded for the lead id
loadedBy(r, id) == r.leads[CHOOSE j \in DOMAIN r.leads : r.leads[j].id = id].lead

\* C28: each successful item of a batch's response names as oldStatus the status the lead
\* held before the batch updated it, and as newStatus the status the batch requested.
C28_OldStatusIsStatusBefore ==
  [][(res' # res /\ res'.op = "bulkUpdateLeadStatus" /\ res'.code = 200) =>
       \A r \in inflight :
          (lastTurn(r) /\ bulkSaveItem(r)) =>
             \A k \in DOMAIN res'.successful :
                /\ res'.successful[k].newStatus = r.status
                /\ res'.successful[k].oldStatus = loadedBy(r, res'.successful[k].id).status]_vars

(* ------------------------- claims: frame of a status update ------------- *)
statusFields == {"status", "statusHistory", "statusTimestamps", "updatedAt"}

\* C29: a successful status update of lead id leaves every stored lead in the collection
\* under its identifier, changes no field of any other lead, and of lead id changes at most
\* status, statusHistory, statusTimestamps and updatedAt: createdAt, the names, the email,
\* the phone, the company, the source and the notes are as they were.
C29_OnlyStatusFieldsChange ==
  [][(res'.op = "updateLeadStatus" /\ res'.code = 200) =>
       /\ DOMAIN leads' = DOMAIN leads
       /\ \A id \in DOMAIN leads :
             IF id = res'.id
             THEN \A f \in DOMAIN leads[id] \ statusFields : leads'[id][f] = leads[id][f]
             ELSE leads'[id] = leads[id]]_vars

\* the status of a lead was updated whose phone and generated name the hook had rewritten
\* at its creation, while another lead is stored
C29_Witness ==
  /\ res.op = "updateLeadStatus" /\ res.code = 200
  /\ res.id \in DOMAIN leads
  /\ Cardinality(DOMAIN leads) = 2
  /\ Len(leads[res.id].statusHistory) = 2
  /\ leads[res.id].name = <<"B", "o", " ", "O", "x", "-", "A", "b">>
  /\ leads[res.id].phone = <<"5", "5", "5", "1", "2", "3", "4", "5", "6", "7">>
  /\ leads[res.id].updatedAt > leads[res.id].createdAt

(* ------------------------- claims: the list of the page ----------------- *)
\* C30: after deleteLead(id) of the hook succeeds, the list of the hook contains no lead
\* whose identifier (_id or id) is id and totalCount has decreased by exactly one, for leads
\* loaded by fetchLeads as for leads added by createLead; and updateLeadStatus and deleteLead
\* identify the same list element for the same identifier.
C30_DeletedLeadLeavesList ==
  /\ [][(res'.op = "deleteLead" /\ res'.code = 200) =>
          /\ \A id \in DOMAIN leads \ DOMAIN leads' :
                \A i \in DOMAIN useLeads'.leads : ~matchesUpdate(useLeads'.leads[i], id)
          /\ useLeads'.pagination.totalCount = useLeads.pagination.totalCount - 1]_vars
  /\ [](\A i \in DOMAIN useLeads.leads, id \in IdInputs :
          matchesUpdate(useLeads.leads[i], id) <=> ~keptByDelete(useLeads.leads[i], id))

====
